---- MODULE Spec2Model ----
(***************************************************************************)
(* Attendance tracker (src/new.py, class AttendanceTracker and the         *)
(* handlers of AttendanceGUI that change or read its state).               *)
(*                                                                         *)
(* Representation.                                                         *)
(*  - A timetable slot string "Period N (hh:mm-hh:mm)" is the period       *)
(*    number N: the strings the program builds (period combo box,          *)
(*    get_period_time) are one per period, list.sort() on them orders by   *)
(*    N for N in 1..7, and startswith("Period N") selects period N.        *)
(*  - A date is its day of the month in December 2025, the month of the    *)
(*    semester end date "2025-12-13"; 2025-12-01 is a Monday.              *)
(*  - A dict is a function whose DOMAIN is the set of keys.                *)
(*  - Percentages are integers; the threshold is an integer in 0..100.     *)
(*  - The data file is the dictionary save_data builds; WriteJson and      *)
(*    LoadData are json.dump and load_data over it.                        *)
(* The definitions named Atten_ and attendence_ are the earlier variants   *)
(* src/Atten.py and src/attendence.py.                                     *)
(***************************************************************************)
EXTENDS Integers, Sequences, FiniteSets, TLC

\* ---------------------------------------------------------------- inputs
SubjectCodes == {"CS101", "LAB01"}
Days == {"Monday", "Tuesday"}
Statuses == {"present", "absent"}

\* period_num >= 7 is the last period (add_timetable_entry, get_period_time)
LastPeriod == 7
Periods == 1..LastPeriod
\* the periods the timetable machine is driven with: the last three, so that
\* pairs, a run of three and the last period all occur
PeriodInputs == {LastPeriod - 2, LastPeriod - 1, LastPeriod}

\* semester_end_date = "2025-12-13"
SemesterEndDay == 13
\* dates attendance is marked on: Monday 8 and Tuesday 9 December
MarkDates == {SemesterEndDay - 5, SemesterEndDay - 4}

VARIABLES
    subjects,            \* code -> [is_lab]
    timetable,           \* day -> sequence of <<period, code>>
    holidays,            \* set of dates
    attendance_records,  \* code -> sequence of [date, status]  (a defaultdict)
    minimum_attendance,  \* percentage
    initial_attendance,  \* code -> [present, absent, yet_to_go]
    today,               \* datetime.now().date()
    persisted,           \* the snapshot last written by save_data
    lastOp,              \* the last operation called, its arguments and outcome
    lastMark             \* history: status of the latest mark_attendance per <<code, date>>

vars == <<subjects, timetable, holidays, attendance_records, minimum_attendance,
          initial_attendance, today, persisted, lastOp, lastMark>>

\* ---------------------------------------------------------------- helpers
\* the set of <<day, period, code>> of a timetable
Entries(tt) ==
    UNION {{<<d, tt[d][i][1], tt[d][i][2]>> : i \in 1..Len(tt[d])} : d \in DOMAIN tt}

\* a call that returned ret
Call(op, args, ret) == [op |-> op, args |-> args, ret |-> ret, raised |-> FALSE]

\* a call that raised the exception exc
Raise(op, args, exc) == [op |-> op, args |-> args, ret |-> exc, raised |-> TRUE]

\* the dictionary written by save_data
Snapshot(subj, tt, hol, recs, minatt, init) ==
    [subjects |-> subj, timetable |-> tt, holidays |-> hol,
     attendance_records |-> recs, minimum_attendance |-> minatt,
     semester_end_date |-> SemesterEndDay, initial_attendance |-> init]

save_data ==
    persisted' = Snapshot(subjects', timetable', holidays', attendance_records',
                          minimum_attendance', initial_attendance')

\* current_date.weekday(): 0 is Monday; 2025-12-01 is a Monday
weekday(d) == (d - 1) % 7

DayNames == <<"Monday", "Tuesday", "Wednesday", "Thursday", "Friday", "Saturday", "Sunday">>

\* current_date.strftime('%A')
day_name(d) == DayNames[weekday(d) + 1]

\* the dates mark_weekends_as_holidays adds, with Saturday left out
WeekendsFrom_SundayOnly(t) == {d \in t..SemesterEndDay : weekday(d) > 5}

\* the dates added by mark_weekends_as_holidays, started on date t
WeekendsFrom(t) == {d \in t..SemesterEndDay : weekday(d) >= 5}

\* ---------------------------------------------------------------- subjects
add_subject(subject_code, is_lab) ==
    /\ subjects' = [c \in DOMAIN subjects \cup {subject_code} |->
                       IF c = subject_code THEN [is_lab |-> is_lab] ELSE subjects[c]]
    /\ UNCHANGED <<timetable, holidays, attendance_records, minimum_attendance,
                   initial_attendance, today, lastMark>>
    /\ lastOp' = Call("add_subject", <<subject_code, is_lab>>, "ok")
    /\ save_data

\* a dict without one key
Without(f, k) == [c \in DOMAIN f \ {k} |-> f[c]]

\* delete_subject without the clean-up of the timetable
WithoutSubject_Kept(classes, subject_code) == classes

\* the list comprehension of delete_subject over one day's classes
WithoutSubject(classes, subject_code) ==
    SelectSeq(classes, LAMBDA e : e[2] # subject_code)

delete_subject(subject_code) ==
    /\ lastOp' = Call("delete_subject", <<subject_code>>,
                      IF subject_code \in DOMAIN subjects THEN "ok" ELSE "none")
    /\ UNCHANGED <<holidays, minimum_attendance, today, lastMark>>
    /\ IF subject_code \in DOMAIN subjects
       THEN /\ subjects' = Without(subjects, subject_code)
            /\ attendance_records' = Without(attendance_records, subject_code)
            /\ initial_attendance' = Without(initial_attendance, subject_code)
            /\ timetable' = [d \in DOMAIN timetable |->
                                WithoutSubject(timetable[d], subject_code)]
            /\ save_data
       ELSE UNCHANGED <<subjects, attendance_records, initial_attendance,
                        timetable, persisted>>

\* ---------------------------------------------------------------- timetable
\* self.subjects.get(subject_code, {}).get('is_lab', False)
IsLab(subj, subject_code) ==
    IF subject_code \in DOMAIN subj THEN subj[subject_code].is_lab ELSE FALSE

\* any(time.startswith("Period N") for time, _ in classes)
PeriodTaken(classes, period_num) ==
    \E i \in 1..Len(classes) : classes[i][1] = period_num

\* the last-period test off by one: period_num > 7
LabConflict_OffByOne(classes, period_num, is_lab) ==
    is_lab /\ (period_num > LastPeriod \/ PeriodTaken(classes, period_num + 1))

\* the condition under which add_timetable_entry raises ValueError
LabConflict(classes, period_num, is_lab) ==
    is_lab /\ (period_num >= LastPeriod \/ PeriodTaken(classes, period_num + 1))

\* add_timetable_entry without the removal of the classes already in the slots
PlaceEntry_NoRemoval(classes, period_num, subject_code, is_lab) ==
    LET one == Append(classes, <<period_num, subject_code>>)
        two == IF is_lab
               THEN Append(one, <<period_num + 1, subject_code>>)
               ELSE one
    IN  SortSeq(two, LAMBDA a, b : a[1] < b[1])

\* add_timetable_entry without the final sort of the day's list
PlaceEntry_NoSort(classes, period_num, subject_code, is_lab) ==
    LET kept1 == SelectSeq(classes, LAMBDA e : e[1] # period_num)
        kept2 == IF is_lab
                 THEN SelectSeq(kept1, LAMBDA e : e[1] # period_num + 1)
                 ELSE kept1
        one   == Append(kept2, <<period_num, subject_code>>)
    IN  IF is_lab THEN Append(one, <<period_num + 1, subject_code>>) ELSE one

\* the day's list after the removal, the appends and the sort
PlaceEntry(classes, period_num, subject_code, is_lab) ==
    LET kept1 == SelectSeq(classes, LAMBDA e : e[1] # period_num)
        kept2 == IF is_lab
                 THEN SelectSeq(kept1, LAMBDA e : e[1] # period_num + 1)
                 ELSE kept1
        one   == Append(kept2, <<period_num, subject_code>>)
        two   == IF is_lab
                 THEN Append(one, <<period_num + 1, subject_code>>)
                 ELSE one
    IN  SortSeq(two, LAMBDA a, b : a[1] < b[1])

add_timetable_entry(day, period_num, subject_code) ==
    LET created == IF day \in DOMAIN timetable
                   THEN timetable
                   ELSE [d \in DOMAIN timetable \cup {day} |->
                            IF d = day THEN <<>> ELSE timetable[d]]
        is_lab  == IsLab(subjects, subject_code)
    IN  /\ UNCHANGED <<subjects, holidays, attendance_records, minimum_attendance,
                       initial_attendance, today, lastMark>>
        /\ IF LabConflict(created[day], period_num, is_lab)
           THEN /\ timetable' = created
                /\ lastOp' = Raise("add_timetable_entry",
                                   <<day, period_num, subject_code>>, "ValueError")
                /\ UNCHANGED persisted
           ELSE /\ timetable' = [created EXCEPT ![day] =
                                    PlaceEntry(created[day], period_num, subject_code, is_lab)]
                /\ lastOp' = Call("add_timetable_entry",
                                  <<day, period_num, subject_code>>, "ok")
                /\ save_data

\* the loop of delete_timetable_entry from index i on: the entries kept
RECURSIVE DeleteScan(_, _, _, _, _)
DeleteScan(classes, i, skip_next, period_num, subject_code) ==
    IF i > Len(classes) THEN <<>>
    ELSE IF skip_next
         THEN DeleteScan(classes, i + 1, FALSE, period_num, subject_code)
         ELSE IF classes[i][1] = period_num /\ classes[i][2] = subject_code
              THEN DeleteScan(classes, i + 1,
                              i < Len(classes) /\ classes[i + 1][2] = subject_code,
                              period_num, subject_code)
              ELSE <<classes[i]>> \o
                   DeleteScan(classes, i + 1, FALSE, period_num, subject_code)

delete_timetable_entry(day, period_num, subject_code) ==
    /\ UNCHANGED <<subjects, holidays, attendance_records, minimum_attendance,
                   initial_attendance, today, lastMark>>
    /\ lastOp' = Call("delete_timetable_entry", <<day, period_num, subject_code>>,
                      IF day \in DOMAIN timetable THEN "ok" ELSE "none")
    /\ IF day \in DOMAIN timetable
       THEN LET new_entries == DeleteScan(timetable[day], 1, FALSE, period_num, subject_code)
            IN  /\ timetable' = IF new_entries # <<>>
                                THEN [timetable EXCEPT ![day] = new_entries]
                                ELSE Without(timetable, day)
                /\ save_data
       ELSE UNCHANGED <<timetable, persisted>>

\* ---------------------------------------------------------------- ledger
\* mark_attendance that always appends
MarkRecords_Append(records, date_str, status) ==
    Append(records, [date |-> date_str, status |-> status])

\* mark_attendance that finds the existing record and leaves its status
MarkRecords_KeepStatus(records, date_str, status) ==
    IF \E i \in 1..Len(records) : records[i].date = date_str
    THEN records
    ELSE Append(records, [date |-> date_str, status |-> status])

\* the records of one subject after mark_attendance
MarkRecords(records, date_str, status) ==
    IF \E i \in 1..Len(records) : records[i].date = date_str
    THEN [i \in 1..Len(records) |->
             IF records[i].date = date_str
             THEN [records[i] EXCEPT !.status = status]
             ELSE records[i]]
    ELSE Append(records, [date |-> date_str, status |-> status])

\* self.attendance_records[subject_code] of a defaultdict(list): the dict read
Touched(recs, subject_code) ==
    IF subject_code \in DOMAIN recs
    THEN recs
    ELSE [c \in DOMAIN recs \cup {subject_code} |->
             IF c = subject_code THEN <<>> ELSE recs[c]]

\* the whole ledger after mark_attendance
MarkLedger(recs, subject_code, date_str, status) ==
    [Touched(recs, subject_code) EXCEPT ![subject_code] =
        MarkRecords(Touched(recs, subject_code)[subject_code], date_str, status)]

mark_attendance(subject_code, date_str, status) ==
    /\ attendance_records' = MarkLedger(attendance_records, subject_code, date_str, status)
    /\ lastMark' = [lastMark EXCEPT ![<<subject_code, date_str>>] = status]
    /\ UNCHANGED <<subjects, timetable, holidays, minimum_attendance,
                   initial_attendance, today>>
    /\ lastOp' = Call("mark_attendance", <<subject_code, date_str, status>>, "ok")
    /\ save_data

set_initial_attendance(subject_code, present, absent, yet_to_go) ==
    /\ initial_attendance' =
          [c \in DOMAIN initial_attendance \cup {subject_code} |->
              IF c = subject_code
              THEN [present |-> present, absent |-> absent, yet_to_go |-> yet_to_go]
              ELSE initial_attendance[c]]
    /\ UNCHANGED <<subjects, timetable, holidays, attendance_records,
                   minimum_attendance, today, lastMark>>
    /\ lastOp' = Call("set_initial_attendance",
                      <<subject_code, present, absent, yet_to_go>>, "ok")
    /\ save_data

\* ---------------------------------------------------------------- projection
\* sum(1 for _, subj in classes if subj == subject_code)
CountSubject(classes, subject_code) ==
    Cardinality({i \in 1..Len(classes) : classes[i][2] = subject_code})

\* the loop of get_remaining_classes without the holiday test
RECURSIVE RemainingFrom_HolidaysCounted(_, _, _, _)
RemainingFrom_HolidaysCounted(current_date, tt, hol, subject_code) ==
    IF current_date > SemesterEndDay THEN 0
    ELSE (IF day_name(current_date) \in DOMAIN tt
          THEN CountSubject(tt[day_name(current_date)], subject_code)
          ELSE 0)
         + RemainingFrom_HolidaysCounted(current_date + 1, tt, hol, subject_code)

\* the while loop of get_remaining_classes from current_date on
RECURSIVE RemainingFrom(_, _, _, _)
RemainingFrom(current_date, tt, hol, subject_code) ==
    IF current_date > SemesterEndDay THEN 0
    ELSE (IF day_name(current_date) \in DOMAIN tt /\ current_date \notin hol
          THEN CountSubject(tt[day_name(current_date)], subject_code)
          ELSE 0)
         + RemainingFrom(current_date + 1, tt, hol, subject_code)

get_remaining_classes(subject_code) ==
    RemainingFrom(today, timetable, holidays, subject_code)

Min(a, b) == IF a <= b THEN a ELSE b
Max(a, b) == IF a >= b THEN a ELSE b

\* math.ceil(n / 100) for an integer n of either sign
Ceil100(n) == -((-n) \div 100)

\* int(n / 100): truncation towards zero
Int100(n) == IF n >= 0 THEN n \div 100 ELSE -((-n) \div 100)

\* round(100 * p / t, 2) in hundredths of a percent (ties to even), t > 0
Round2(p, t) ==
    LET q == (10000 * p) \div t
        r == (10000 * p) % t
    IN  IF 2 * r > t \/ (2 * r = t /\ q % 2 = 1) THEN q + 1 ELSE q

CountStatus(records, status) ==
    Cardinality({i \in 1..Len(records) : records[i].status = status})

\* self.initial_attendance.get(subject_code, {'present': 0, 'absent': 0, 'yet_to_go': 0})
InitialOf(init, subject_code) ==
    IF subject_code \in DOMAIN init
    THEN init[subject_code]
    ELSE [present |-> 0, absent |-> 0, yet_to_go |-> 0]

\* classes_needed without the cap at the classes still available
ClassesNeeded_NoCap(minatt, total_possible, current_present, remaining, yet_to_go) ==
    IF total_possible > 0
    THEN Max(0, Ceil100(minatt * total_possible - 100 * current_present))
    ELSE 0

\* classes_needed without the max(0, ...)
ClassesNeeded_NoMax(minatt, total_possible, current_present, remaining, yet_to_go) ==
    IF total_possible > 0
    THEN Min(Ceil100(minatt * total_possible - 100 * current_present),
             remaining + yet_to_go)
    ELSE 0

\* classes_needed rounded down instead of up
ClassesNeeded_Floor(minatt, total_possible, current_present, remaining, yet_to_go) ==
    IF total_possible > 0
    THEN Min(Max(0, (minatt * total_possible - 100 * current_present) \div 100),
             remaining + yet_to_go)
    ELSE 0

\* classes_needed of get_attendance_stats
ClassesNeeded(minatt, total_possible, current_present, remaining, yet_to_go) ==
    IF total_possible > 0
    THEN Min(Max(0, Ceil100(minatt * total_possible - 100 * current_present)),
             remaining + yet_to_go)
    ELSE 0

\* current_percentage of get_attendance_stats, rounded as in the returned dict
Percentage(current_present, current_total) ==
    IF current_total > 0 THEN Round2(current_present, current_total) ELSE 0

\* get_attendance_stats with the calendar forecast counted in total_possible
StatsOf_CountsRemaining(records, initial, remaining, minatt) ==
    LET current_present == CountStatus(records, "present") + initial.present
        current_absent  == CountStatus(records, "absent") + initial.absent
        yet_to_go       == initial.yet_to_go
        total_possible  == current_present + current_absent + yet_to_go + remaining
        current_total   == current_present + current_absent
    IN  [current_present |-> current_present,
         current_absent  |-> current_absent,
         current_total   |-> current_total,
         percentage      |-> Percentage(current_present, current_total),
         remaining_classes |-> remaining,
         yet_to_go       |-> yet_to_go,
         classes_needed  |-> ClassesNeeded(minatt, total_possible, current_present,
                                           remaining, yet_to_go),
         total_possible  |-> total_possible]

\* the denominators of the divisions get_attendance_stats evaluates: line 258
\* divides by current_total behind its guard, line 263 by 100
StatsDivisors(records, initial) ==
    LET current_total  == CountStatus(records, "present") + initial.present
                          + CountStatus(records, "absent") + initial.absent
        total_possible == current_total + initial.yet_to_go
    IN  (IF current_total > 0 THEN {current_total} ELSE {})
        \cup (IF total_possible > 0 THEN {100} ELSE {})

\* the dict returned by get_attendance_stats
StatsOf(records, initial, remaining, minatt) ==
    LET current_present == CountStatus(records, "present") + initial.present
        current_absent  == CountStatus(records, "absent") + initial.absent
        yet_to_go       == initial.yet_to_go
        total_possible  == current_present + current_absent + yet_to_go
        current_total   == current_present + current_absent
    IN  [current_present |-> current_present,
         current_absent  |-> current_absent,
         current_total   |-> current_total,
         percentage      |-> Percentage(current_present, current_total),
         remaining_classes |-> remaining,
         yet_to_go       |-> yet_to_go,
         classes_needed  |-> ClassesNeeded(minatt, total_possible, current_present,
                                           remaining, yet_to_go),
         total_possible  |-> total_possible]

\* the denominators get_attendance_stats(subject_code) divides by in the current state
DivisorsOfStats(subject_code) ==
    StatsDivisors(Touched(attendance_records, subject_code)[subject_code],
                  InitialOf(initial_attendance, subject_code))

\* get_attendance_stats(subject_code) evaluated in the current state
Stats(subject_code) ==
    StatsOf(Touched(attendance_records, subject_code)[subject_code],
            InitialOf(initial_attendance, subject_code),
            get_remaining_classes(subject_code),
            minimum_attendance)

\* the pairs <<minimum_attendance, total_possible>>, total_possible <= 130, whose
\* double product (minimum_attendance / 100) * total_possible lies just above
\* its exact value, an integer: max_bunkable - already_absent is then just
\* below an integer and int() drops to the integer below
DoubleProductAbove ==
    {<<56, 25>>, <<56, 50>>, <<56, 75>>, <<68, 75>>, <<55, 100>>, <<56, 100>>}

\* calculate_bunkable_classes without its early return for no classes held
Bunkable_NoEarlyReturn(minatt, stats) ==
    Max(0, Int100(100 * stats.total_possible - minatt * stats.total_possible
                  - 100 * stats.current_absent))

\* can_bunk without the subtraction of the classes already missed
Bunkable_AbsentNotCounted(minatt, stats) ==
    IF stats.current_total = 0 THEN 0
    ELSE Max(0, Int100(100 * stats.total_possible - minatt * stats.total_possible))

\* can_bunk of calculate_bunkable_classes, from the stats it reads
Bunkable(minatt, stats) ==
    IF stats.current_total = 0 THEN 0
    ELSE LET n == 100 * stats.total_possible - minatt * stats.total_possible
                  - 100 * stats.current_absent
         IN  Max(0, IF <<minatt, stats.total_possible>> \in DoubleProductAbove /\ n >= 100
                    THEN Int100(n) - 1
                    ELSE Int100(n))

\* the denominator of line 292, reached after the early return
BunkableDivisors(stats) == IF stats.current_total = 0 THEN {} ELSE {100}

\* needed_percentage without the continue on remaining_classes == 0
StatusDivisors_NoContinue(stats) ==
    IF stats.current_total = 0 THEN {}
    ELSE IF stats.classes_needed = 0 THEN {}
    ELSE {stats.yet_to_go}

\* the denominator of needed_percentage (line 935), in the branch that reaches it
StatusDivisors(stats) ==
    IF stats.current_total = 0 THEN {}
    ELSE IF stats.classes_needed = 0 THEN {}
    ELSE IF stats.yet_to_go = 0 THEN {}
    ELSE {stats.yet_to_go}

\* the tiers without the test needed_percentage >= 90
StatusOf_NoBlocking(stats) ==
    IF stats.current_total = 0 THEN "NO_DATA"
    ELSE IF stats.classes_needed = 0 THEN "SAFE"
    ELSE IF stats.yet_to_go = 0 THEN "UNRECOVERABLE"
    ELSE LET n == 100 * stats.classes_needed
             d == stats.yet_to_go
         IN  IF n >= 100 * d THEN "UNRECOVERABLE"
             ELSE IF n >= 80 * d THEN "CRITICAL"
             ELSE IF n >= 70 * d THEN "ATTENTION"
             ELSE IF n >= 60 * d THEN "MEDIUM"
             ELSE "SAFE_NEED"

\* the status line refresh_analytics prints for one subject:
\*   NO_DATA "NO DATA", SAFE "SAFE (Can bunk ...)", UNRECOVERABLE the two
\*   lines of the worst tier, CANT_BUNK "CAN'T BUNK", CRITICAL, ATTENTION,
\*   MEDIUM, SAFE_NEED "SAFE (Need ...)"
StatusOf(stats) ==
    IF stats.current_total = 0 THEN "NO_DATA"
    ELSE IF stats.classes_needed = 0 THEN "SAFE"
    ELSE IF stats.yet_to_go = 0 THEN "UNRECOVERABLE"
    ELSE LET n == 100 * stats.classes_needed
             d == stats.yet_to_go
         IN  IF n >= 100 * d THEN "UNRECOVERABLE"
             ELSE IF n >= 90 * d THEN "CANT_BUNK"
             ELSE IF n >= 80 * d THEN "CRITICAL"
             ELSE IF n >= 70 * d THEN "ATTENTION"
             ELSE IF n >= 60 * d THEN "MEDIUM"
             ELSE "SAFE_NEED"

\* the reads leave a key behind in the defaultdict and write no snapshot
get_attendance_stats(subject_code) ==
    /\ attendance_records' = Touched(attendance_records, subject_code)
    /\ lastOp' = IF 0 \in DivisorsOfStats(subject_code)
                 THEN Raise("get_attendance_stats", <<subject_code>>, "ZeroDivisionError")
                 ELSE Call("get_attendance_stats", <<subject_code>>, Stats(subject_code))
    /\ UNCHANGED <<subjects, timetable, holidays, minimum_attendance,
                   initial_attendance, today, persisted, lastMark>>

calculate_bunkable_classes(subject_code) ==
    /\ attendance_records' = Touched(attendance_records, subject_code)
    /\ lastOp' = IF 0 \in DivisorsOfStats(subject_code)
                         \cup BunkableDivisors(Stats(subject_code))
                 THEN Raise("calculate_bunkable_classes", <<subject_code>>,
                            "ZeroDivisionError")
                 ELSE Call("calculate_bunkable_classes", <<subject_code>>,
                           Bunkable(minimum_attendance, Stats(subject_code)))
    /\ UNCHANGED <<subjects, timetable, holidays, minimum_attendance,
                   initial_attendance, today, persisted, lastMark>>

\* the per-subject part of refresh_analytics: stats, bunkable and status line
refresh_analytics ==
    /\ attendance_records' =
          [c \in DOMAIN attendance_records \cup DOMAIN subjects |->
              IF c \in DOMAIN attendance_records THEN attendance_records[c] ELSE <<>>]
    /\ lastOp' = IF \E c \in DOMAIN subjects :
                        0 \in DivisorsOfStats(c) \cup BunkableDivisors(Stats(c))
                              \cup StatusDivisors(Stats(c))
                 THEN Raise("refresh_analytics", << >>, "ZeroDivisionError")
                 ELSE Call("refresh_analytics", << >>,
                           [c \in DOMAIN subjects |->
                               [stats    |-> Stats(c),
                                bunkable |-> Bunkable(minimum_attendance, Stats(c)),
                                status   |-> StatusOf(Stats(c))]])
    /\ UNCHANGED <<subjects, timetable, holidays, minimum_attendance,
                   initial_attendance, today, persisted, lastMark>>

\* ---------------------------------------------------------------- holidays, threshold
\* AttendanceTracker.add_holiday: the date joins the set, then save_data
add_holiday(date_str) ==
    /\ holidays' = holidays \cup {date_str}
    /\ lastOp' = Call("add_holiday", <<date_str>>, "ok")
    /\ UNCHANGED <<subjects, timetable, attendance_records, minimum_attendance,
                   initial_attendance, today, lastMark>>
    /\ save_data

\* the set after holidays.discard(holiday), with the discard left out
Discard_Kept(hol, holiday) == hol

\* the set after holidays.discard(holiday)
Discard(hol, holiday) == hol \ {holiday}

\* the handler remove_holiday: the row selected in the list box (a member of
\* the set) is discarded, then save_data
remove_holiday(holiday) ==
    /\ holiday \in holidays
    /\ holidays' = Discard(holidays, holiday)
    /\ lastOp' = Call("remove_holiday", <<holiday>>, "ok")
    /\ UNCHANGED <<subjects, timetable, attendance_records, minimum_attendance,
                   initial_attendance, today, lastMark>>
    /\ save_data

\* 0 <= min_att <= 100 with the upper limit left out
InRange_NoUpper(min_att) == 0 <= min_att

\* the range test of update_min_attendance
InRange(min_att) == 0 <= min_att /\ min_att <= 100

\* the handler update_min_attendance on the text of the entry field: float()
\* raises ValueError on a text that is no number (caught, error box); a number
\* in range is stored and saved, and refresh_analytics then reads the stats of
\* every subject (which creates the missing keys of the defaultdict, after the
\* save); a number out of range gets the error box
update_min_attendance(text) ==
    /\ UNCHANGED <<subjects, timetable, holidays, initial_attendance, today, lastMark>>
    /\ IF ~text.numeric
       THEN /\ lastOp' = Call("update_min_attendance", <<text>>, "not a number")
            /\ UNCHANGED <<minimum_attendance, attendance_records, persisted>>
       ELSE IF InRange(text.value)
       THEN /\ minimum_attendance' = text.value
            /\ persisted' = Snapshot(subjects, timetable, holidays, attendance_records,
                                     text.value, initial_attendance)
            /\ attendance_records' =
                  [c \in DOMAIN attendance_records \cup DOMAIN subjects |->
                      IF c \in DOMAIN attendance_records
                      THEN attendance_records[c] ELSE << >>]
            /\ lastOp' = Call("update_min_attendance", <<text>>, "ok")
       ELSE /\ lastOp' = Call("update_min_attendance", <<text>>, "out of range")
            /\ UNCHANGED <<minimum_attendance, attendance_records, persisted>>

\* the holiday set after load_data and mark_weekends_as_holidays on date t
SeededHolidays(loaded, t) == loaded \cup WeekendsFrom(t)

\* ---------------------------------------------------------------- snapshot file
\* list(self.holidays): the members of the set in some order
RECURSIVE SetToSeq(_)
SetToSeq(S) ==
    IF S = {} THEN << >>
    ELSE LET x == CHOOSE y \in S : \A z \in S : y <= z
         IN  <<x>> \o SetToSeq(S \ {x})

\* the JSON document json.dump writes for the dictionary of save_data: the
\* holiday set has become a list, tuples have become lists (both sequences here)
WriteJson(data) ==
    [subjects |-> data.subjects,
     timetable |-> data.timetable,
     holidays |-> SetToSeq(data.holidays),
     attendance_records |-> data.attendance_records,
     minimum_attendance |-> data.minimum_attendance,
     semester_end_date |-> data.semester_end_date,
     initial_attendance |-> data.initial_attendance]

\* the conversion of a seed in the old format (total_classes, attended)
ConvertSeed(seed) ==
    IF "total_classes" \in DOMAIN seed /\ "attended" \in DOMAIN seed
    THEN [present |-> seed.attended,
          absent |-> seed.total_classes - seed.attended,
          yet_to_go |-> 0]
    ELSE seed

\* the number of assignments of load_data: subjects, timetable, holidays,
\* attendance_records, minimum_attendance, initial_attendance
LoadedFields == 6

\* load_data of the earlier variant Atten.py: the same assignments, but the
\* seeds written by its save_data are not read back
Atten_LoadData(file, n) ==
    [subjects |-> IF n >= 1 THEN file.subjects ELSE << >>,
     timetable |-> IF n >= 2
                   THEN [d \in DOMAIN file.timetable |->
                            [i \in 1..Len(file.timetable[d]) |->
                                <<file.timetable[d][i][1], file.timetable[d][i][2]>>]]
                   ELSE << >>,
     holidays |-> IF n >= 3
                  THEN {file.holidays[i] : i \in 1..Len(file.holidays)}
                  ELSE {},
     attendance_records |-> IF n >= 4 THEN file.attendance_records ELSE << >>,
     minimum_attendance |-> IF n >= 5 THEN file.minimum_attendance ELSE 75,
     semester_end_date |-> SemesterEndDay,
     initial_attendance |-> << >>]

\* the fields of a tracker after __init__'s defaults and load_data of the
\* document, whose first n assignments complete (n < LoadedFields: the next
\* one raises, the except clause prints the error and the rest keeps its
\* default); the semester end date is never read
LoadData(file, n) ==
    [subjects |-> IF n >= 1 THEN file.subjects ELSE << >>,
     timetable |-> IF n >= 2
                   THEN [d \in DOMAIN file.timetable |->
                            [i \in 1..Len(file.timetable[d]) |->
                                <<file.timetable[d][i][1], file.timetable[d][i][2]>>]]
                   ELSE << >>,
     holidays |-> IF n >= 3
                  THEN {file.holidays[i] : i \in 1..Len(file.holidays)}
                  ELSE {},
     attendance_records |-> IF n >= 4 THEN file.attendance_records ELSE << >>,
     minimum_attendance |-> IF n >= 5 THEN file.minimum_attendance ELSE 75,
     semester_end_date |-> SemesterEndDay,
     initial_attendance |-> IF n >= 6
                            THEN [c \in DOMAIN file.initial_attendance |->
                                     ConvertSeed(file.initial_attendance[c])]
                            ELSE << >>]

\* __init__ on date t with the fields load_data has set: then
\* mark_weekends_as_holidays and its save_data; load_data never lets an
\* exception out
StartFrom(t, loaded, ret) ==
    /\ t >= today
    /\ today' = t
    /\ subjects' = loaded.subjects
    /\ timetable' = loaded.timetable
    /\ holidays' = SeededHolidays(loaded.holidays, t)
    /\ attendance_records' = loaded.attendance_records
    /\ minimum_attendance' = loaded.minimum_attendance
    /\ initial_attendance' = loaded.initial_attendance
    /\ lastOp' = ret
    /\ UNCHANGED lastMark
    /\ save_data

\* the program is started again on date t: __init__ sets the defaults,
\* load_data reads every field of the snapshot back (the semester end date is
\* not read), mark_weekends_as_holidays adds the weekends left and saves
restart(t) ==
    StartFrom(t, LoadData(WriteJson(persisted), LoadedFields), Call("__init__", <<t>>, "ok"))

\* the program is started on date t over a data file damaged since the last
\* save: json.load or the assignment after the first n raises inside
\* load_data and the exception is caught there
restart_malformed(t, n) ==
    /\ n < LoadedFields
    /\ StartFrom(t, LoadData(WriteJson(persisted), n), Call("__init__", <<t, n>>, "ok"))

\* ---------------------------------------------------------------- earlier variants
\* src/Atten.py and src/attendence.py.  add_subject, mark_attendance, save_data,
\* __init__ and update_min_attendance of Atten.py are those of new.py; its seed
\* is {total_classes, attended}.  The thresholds these machines are driven
\* with (0, 50, 75, 100) and totals below 40 make every float result below
\* equal to the exact one.

\* Atten.py set_initial_attendance
Atten_set_initial_attendance(subject_code, total_classes, attended_classes) ==
    /\ initial_attendance' =
          [c \in DOMAIN initial_attendance \cup {subject_code} |->
              IF c = subject_code
              THEN [total_classes |-> total_classes, attended |-> attended_classes]
              ELSE initial_attendance[c]]
    /\ UNCHANGED <<subjects, timetable, holidays, attendance_records,
                   minimum_attendance, today, lastMark>>
    /\ lastOp' = Call("Atten.set_initial_attendance",
                      <<subject_code, total_classes, attended_classes>>, "ok")
    /\ save_data

\* Atten.py started again on date t from its snapshot
Atten_restart(t) ==
    StartFrom(t, Atten_LoadData(WriteJson(persisted), LoadedFields),
              Call("Atten.__init__", <<t>>, "ok"))

\* self.initial_attendance.get(subject_code, {'total_classes': 0, 'attended': 0})
Atten_InitialOf(init, subject_code) ==
    IF subject_code \in DOMAIN init THEN init[subject_code]
    ELSE [total_classes |-> 0, attended |-> 0]

\* the while loop of Atten.py get_attendance_stats
Atten_ClassesNeeded(minatt, total_possible, present, remaining) ==
    IF total_possible > 0
    THEN LET enough == {k \in 0..(remaining + 1) :
                           100 * (present + k) >= minatt * total_possible}
         IN  IF enough = {} THEN remaining + 1
             ELSE CHOOSE k \in enough : \A j \in enough : k <= j
    ELSE 0

\* the dict returned by Atten.py get_attendance_stats (percentage in
\* hundredths, as Percentage)
Atten_StatsOf(records, initial, remaining, minatt) ==
    LET total   == Len(records) + initial.total_classes
        present == CountStatus(records, "present") + initial.attended
    IN  [total |-> total,
         present |-> present,
         absent |-> total - present,
         percentage |-> Percentage(present, total),
         remaining_classes |-> remaining,
         classes_needed |-> Atten_ClassesNeeded(minatt, total + remaining, present, remaining),
         total_possible |-> total + remaining]

\* Atten.py get_attendance_stats(subject_code) in the current state
Atten_Stats(subject_code) ==
    Atten_StatsOf(Touched(attendance_records, subject_code)[subject_code],
                  Atten_InitialOf(initial_attendance, subject_code),
                  get_remaining_classes(subject_code), minimum_attendance)

\* the dict returned by attendence.py get_attendance_stats: the ledger only
attendence_Stats(subject_code) ==
    LET records == Touched(attendance_records, subject_code)[subject_code]
    IN  [total |-> Len(records),
         present |-> CountStatus(records, "present"),
         absent |-> Len(records) - CountStatus(records, "present"),
         percentage |-> Percentage(CountStatus(records, "present"), Len(records))]

\* the denominators calculate_bunkable_classes of Atten.py and attendence.py
\* divides by after the early return: 100 for min_ratio, and min_ratio (zero
\* exactly when the threshold is) for max_total once the percentage is above
\* the threshold
Atten_BunkableDivisors(minatt, stats) ==
    IF stats.total = 0 THEN {}
    ELSE {100} \cup (IF stats.percentage <= 100 * minatt THEN {} ELSE {minatt})

\* calculate_bunkable_classes of Atten.py and attendence.py:
\* max(0, int(present / (minatt / 100) - total))
Atten_Bunkable(minatt, stats) ==
    IF stats.total = 0 THEN 0
    ELSE IF stats.percentage <= 100 * minatt THEN 0
    ELSE Max(0, (100 * stats.present - minatt * stats.total) \div minatt)

\* the denominator of the classes_needed of Atten.py refresh_analytics,
\* computed for a subject below the threshold
Atten_StatusDivisors(minatt, stats) ==
    IF stats.percentage >= 100 * minatt THEN {} ELSE {100 - minatt}

\* the status line of Atten.py refresh_analytics
Atten_StatusOf(minatt, stats) ==
    IF stats.percentage >= 100 * minatt
    THEN [status |-> "SAFE", classes_needed |-> 0]
    ELSE [status |-> "CRITICAL",
          classes_needed |->
              Max(0, (minatt * stats.total - 100 * stats.present) \div (100 - minatt))]

Atten_calculate_bunkable_classes(subject_code) ==
    /\ attendance_records' = Touched(attendance_records, subject_code)
    /\ lastOp' = IF 0 \in Atten_BunkableDivisors(minimum_attendance, Atten_Stats(subject_code))
                 THEN Raise("Atten.calculate_bunkable_classes", <<subject_code>>,
                            "ZeroDivisionError")
                 ELSE Call("Atten.calculate_bunkable_classes", <<subject_code>>,
                           Atten_Bunkable(minimum_attendance, Atten_Stats(subject_code)))
    /\ UNCHANGED <<subjects, timetable, holidays, minimum_attendance,
                   initial_attendance, today, persisted, lastMark>>

attendence_calculate_bunkable_classes(subject_code) ==
    /\ attendance_records' = Touched(attendance_records, subject_code)
    /\ lastOp' = IF 0 \in Atten_BunkableDivisors(minimum_attendance,
                                                 attendence_Stats(subject_code))
                 THEN Raise("attendence.calculate_bunkable_classes", <<subject_code>>,
                            "ZeroDivisionError")
                 ELSE Call("attendence.calculate_bunkable_classes", <<subject_code>>,
                           Atten_Bunkable(minimum_attendance,
                                          attendence_Stats(subject_code)))
    /\ UNCHANGED <<subjects, timetable, holidays, minimum_attendance,
                   initial_attendance, today, persisted, lastMark>>

\* what the loop of Atten.py refresh_analytics does at threshold minatt: the
\* exception of the first failing division, or the analytics of every subject
Atten_Analytics(op, args, minatt) ==
    IF \E c \in DOMAIN subjects :
          0 \in Atten_BunkableDivisors(minatt, Atten_StatsOf(
                    Touched(attendance_records, c)[c],
                    Atten_InitialOf(initial_attendance, c),
                    get_remaining_classes(c), minatt))
                \cup Atten_StatusDivisors(minatt, Atten_StatsOf(
                    Touched(attendance_records, c)[c],
                    Atten_InitialOf(initial_attendance, c),
                    get_remaining_classes(c), minatt))
    THEN Raise(op, args, "ZeroDivisionError")
    ELSE Call(op, args,
              [c \in DOMAIN subjects |->
                  LET stats == Atten_StatsOf(Touched(attendance_records, c)[c],
                                             Atten_InitialOf(initial_attendance, c),
                                             get_remaining_classes(c), minatt)
                  IN  [stats    |-> stats,
                       bunkable |-> Atten_Bunkable(minatt, stats),
                       status   |-> Atten_StatusOf(minatt, stats)]])

\* the defaultdict after the reads of refresh_analytics
TouchedAll(recs, subj) ==
    [c \in DOMAIN recs \cup DOMAIN subj |-> IF c \in DOMAIN recs THEN recs[c] ELSE << >>]

Atten_refresh_analytics ==
    /\ attendance_records' = TouchedAll(attendance_records, subjects)
    /\ lastOp' = Atten_Analytics("Atten.refresh_analytics", << >>, minimum_attendance)
    /\ UNCHANGED <<subjects, timetable, holidays, minimum_attendance,
                   initial_attendance, today, persisted, lastMark>>

\* the handler update_min_attendance of Atten.py: as in new.py, but the
\* refresh_analytics it ends with is Atten.py's, whose ZeroDivisionError the
\* handler does not catch (the threshold is stored and saved by then)
Atten_update_min_attendance(text) ==
    /\ UNCHANGED <<subjects, timetable, holidays, initial_attendance, today, lastMark>>
    /\ IF ~text.numeric
       THEN /\ lastOp' = Call("Atten.update_min_attendance", <<text>>, "not a number")
            /\ UNCHANGED <<minimum_attendance, attendance_records, persisted>>
       ELSE IF InRange(text.value)
       THEN /\ minimum_attendance' = text.value
            /\ persisted' = Snapshot(subjects, timetable, holidays, attendance_records,
                                     text.value, initial_attendance)
            /\ attendance_records' = TouchedAll(attendance_records, subjects)
            /\ lastOp' = Atten_Analytics("Atten.update_min_attendance", <<text>>,
                                         text.value)
       ELSE /\ lastOp' = Call("Atten.update_min_attendance", <<text>>, "out of range")
            /\ UNCHANGED <<minimum_attendance, attendance_records, persisted>>

\* ---------------------------------------------------------------- construction
\* __init__ with no data file, run on date t: the defaults, then
\* mark_weekends_as_holidays and its save_data
InitAt(t) ==
    /\ today = t
    /\ subjects = << >>
    /\ timetable = << >>
    /\ holidays = WeekendsFrom(t)
    /\ attendance_records = << >>
    /\ minimum_attendance = 75
    /\ initial_attendance = << >>
    /\ persisted = Snapshot(<< >>, << >>, WeekendsFrom(t), << >>, 75, << >>)
    /\ lastOp = Call("__init__", << >>, "ok")
    /\ lastMark = [k \in SubjectCodes \X MarkDates |-> "none"]

\* ---------------------------------------------------------------- timetable machine
InitTimetable == InitAt(SemesterEndDay - 5)

NextTimetable ==
    \/ \E c \in SubjectCodes, l \in BOOLEAN : add_subject(c, l)
    \/ \E c \in SubjectCodes : delete_subject(c)
    \/ \E d \in Days, p \in PeriodInputs, c \in SubjectCodes : add_timetable_entry(d, p, c)
    \/ \E d \in Days, p \in PeriodInputs, c \in SubjectCodes : delete_timetable_entry(d, p, c)

SpecTimetable == InitTimetable /\ [][NextTimetable]_vars

\* ---------------------------------------------------------------- ledger machine
InitLedger == InitAt(SemesterEndDay - 5)

NextLedger ==
    \/ \E c \in SubjectCodes : add_subject(c, FALSE)
    \/ \E c \in SubjectCodes : delete_subject(c)
    \/ \E c \in SubjectCodes, d \in MarkDates, st \in Statuses : mark_attendance(c, d, st)

SpecLedger == InitLedger /\ [][NextLedger]_vars

\* ---------------------------------------------------------------- the tracker
\* every mutating operation, driven with one weekday, the last two periods,
\* one date and one seed
MaxSeed == 2
OneDay == {"Monday"}
TwoPeriods == {LastPeriod - 1, LastPeriod}
OneDate == {SemesterEndDay - 5}

Init == InitAt(SemesterEndDay - 5)

Next ==
    \/ \E c \in SubjectCodes, l \in BOOLEAN : add_subject(c, l)
    \/ \E c \in SubjectCodes : delete_subject(c)
    \/ \E d \in OneDay, p \in TwoPeriods, c \in SubjectCodes : add_timetable_entry(d, p, c)
    \/ \E d \in OneDay, p \in TwoPeriods, c \in SubjectCodes : delete_timetable_entry(d, p, c)
    \/ \E c \in SubjectCodes, d \in OneDate, st \in Statuses : mark_attendance(c, d, st)
    \/ \E c \in SubjectCodes : set_initial_attendance(c, MaxSeed, 1, MaxSeed)

Spec == Init /\ [][Next]_vars

\* ---------------------------------------------------------------- calendar machine
\* one lab or lecture placed on a weekday and on a Saturday, holidays added
\* and removed, the threshold edited, the program started again later
CalendarDays == {"Monday", "Saturday"}
CalendarPeriods == {LastPeriod - 1}
CalendarSubjects == {"CS101"}
\* a Saturday, the Monday after it, and the day after the semester end
CalendarTodays == {SemesterEndDay - 7, SemesterEndDay - 5, SemesterEndDay + 1}
\* a Saturday and a Monday
HolidayInputs == {SemesterEndDay - 7, SemesterEndDay - 5}
ThresholdTexts ==
    {[numeric |-> TRUE, value |-> v] : v \in {0 - 1, 0, 100, 100 + 1}}
        \cup {[numeric |-> FALSE, value |-> 0]}

InitCalendar == InitAt(SemesterEndDay - 7)

NextCalendar ==
    \/ \E c \in CalendarSubjects, l \in BOOLEAN : add_subject(c, l)
    \/ \E d \in CalendarDays, p \in CalendarPeriods, c \in CalendarSubjects :
          add_timetable_entry(d, p, c)
    \/ \E h \in HolidayInputs : add_holiday(h)
    \/ \E h \in holidays : remove_holiday(h)
    \/ \E text \in ThresholdTexts : update_min_attendance(text)
    \/ \E c \in CalendarSubjects : get_attendance_stats(c)
    \/ \E t \in CalendarTodays : restart(t)

SpecCalendar == InitCalendar /\ [][NextCalendar]_vars

\* ---------------------------------------------------------------- startup machine
\* a tracker with a subject, a seed, a mark, a holiday and a threshold, started
\* again from its snapshot, intact or damaged
StartupTodays == {SemesterEndDay - 5, SemesterEndDay + 1}
StartupHolidays == {SemesterEndDay - 4}
StartupTexts == {[numeric |-> TRUE, value |-> v] : v \in {100, 100 + 1}}
\* load_data fails at once, after the timetable, or on the seeds
DamagedAfter == {0, 2, LoadedFields - 1}

InitStartup == InitAt(SemesterEndDay - 5)

NextStartup ==
    \/ \E c \in CalendarSubjects, l \in BOOLEAN : add_subject(c, l)
    \/ \E d \in OneDay, p \in CalendarPeriods, c \in CalendarSubjects :
          add_timetable_entry(d, p, c)
    \/ \E c \in CalendarSubjects, d \in OneDate, st \in Statuses : mark_attendance(c, d, st)
    \/ \E c \in CalendarSubjects : set_initial_attendance(c, MaxSeed, 1, MaxSeed)
    \/ \E h \in StartupHolidays : add_holiday(h)
    \/ \E text \in StartupTexts : update_min_attendance(text)
    \/ \E t \in StartupTodays : restart(t)
    \/ \E t \in StartupTodays, n \in DamagedAfter : restart_malformed(t, n)

SpecStartup == InitStartup /\ [][NextStartup]_vars

\* ---------------------------------------------------------------- earlier variants machine
AttenSubjects == {"CS101"}
AttenTexts ==
    {[numeric |-> TRUE, value |-> v] : v \in {0, 50, 100, 100 + 1}}
        \cup {[numeric |-> FALSE, value |-> 0]}
AttenTodays == {SemesterEndDay - 5, SemesterEndDay + 1}

InitAtten == InitAt(SemesterEndDay - 5)

NextAtten ==
    \/ \E c \in AttenSubjects : add_subject(c, FALSE)
    \/ \E d \in OneDay, p \in CalendarPeriods, c \in AttenSubjects :
          add_timetable_entry(d, p, c)
    \/ \E c \in AttenSubjects, d \in MarkDates, st \in Statuses : mark_attendance(c, d, st)
    \/ \E c \in AttenSubjects, a \in {1, MaxSeed} :
          Atten_set_initial_attendance(c, MaxSeed, a)
    \/ \E text \in AttenTexts : Atten_update_min_attendance(text)
    \/ \E c \in AttenSubjects : Atten_calculate_bunkable_classes(c)
    \/ \E c \in AttenSubjects : attendence_calculate_bunkable_classes(c)
    \/ Atten_refresh_analytics
    \/ \E t \in AttenTodays : Atten_restart(t)

SpecAtten == InitAtten /\ [][NextAtten]_vars

\* ---------------------------------------------------------------- projection inputs
\* seeds: every triple of counts up to MaxSeed, and the seeds of the worked
\* scenarios (30 present, 5 absent, 10 to go; 75 present of 100 held; 10
\* present and 5 absent of 25 possible)
SeedInputs ==
    [present : 0..MaxSeed, absent : 0..MaxSeed, yet_to_go : 0..MaxSeed]
    \cup {[present |-> 30, absent |-> 5, yet_to_go |-> 10],
          [present |-> 75, absent |-> 25, yet_to_go |-> 0],
          [present |-> 10, absent |-> 5, yet_to_go |-> 10]}

\* ledgers of the subject: none, or one record
LedgerInputs ==
    {<< >>} \cup {<<[date |-> d, status |-> st]>> : d \in OneDate, st \in Statuses}

\* the subject's weekly classes: none, one class, a lab pair
ClassInputs ==
    {<< >>, <<<<1, "CS101">>>>, <<<<1, "CS101">>, <<2, "CS101">>>>}

\* the program is run on the last Monday of the semester or the day after its end
TodayInputs == {SemesterEndDay - 5, SemesterEndDay + 1}

InitStats ==
    \E t \in TodayInputs, seed \in SeedInputs, recs \in LedgerInputs,
       classes \in ClassInputs, m \in 0..100 :
        /\ today = t
        /\ subjects = [c \in {"CS101"} |-> [is_lab |-> Len(classes) = 2]]
        /\ timetable = IF classes = << >> THEN << >> ELSE [d \in OneDay |-> classes]
        /\ holidays = WeekendsFrom(t)
        /\ attendance_records = IF recs = << >> THEN << >> ELSE [c \in {"CS101"} |-> recs]
        /\ minimum_attendance = m
        /\ initial_attendance = [c \in {"CS101"} |-> seed]
        /\ persisted = Snapshot(subjects, timetable, holidays, attendance_records,
                                minimum_attendance, initial_attendance)
        /\ lastOp = Call("__init__", << >>, "ok")
        /\ lastMark = [k \in SubjectCodes \X MarkDates |->
                          IF recs # << >> /\ k = <<"CS101", recs[1].date>>
                          THEN recs[1].status ELSE "none"]

NextStats ==
    \/ \E c \in DOMAIN subjects : get_attendance_stats(c)
    \/ \E c \in DOMAIN subjects : calculate_bunkable_classes(c)
    \/ refresh_analytics

SpecStats == InitStats /\ [][NextStats]_vars

\* ================================================================ properties
\* what the state says about a subject, independently of the operators above
SeedOf(c) ==
    IF c \in DOMAIN initial_attendance
    THEN initial_attendance[c]
    ELSE [present |-> 0, absent |-> 0, yet_to_go |-> 0]

RecordsOf(c) == IF c \in DOMAIN attendance_records THEN attendance_records[c] ELSE << >>

PresentOf(c) ==
    Cardinality({i \in 1..Len(RecordsOf(c)) : RecordsOf(c)[i].status = "present"})
    + SeedOf(c).present

AbsentOf(c) ==
    Cardinality({i \in 1..Len(RecordsOf(c)) : RecordsOf(c)[i].status = "absent"})
    + SeedOf(c).absent

HeldOf(c) == PresentOf(c) + AbsentOf(c)

TotalPossibleOf(c) == HeldOf(c) + SeedOf(c).yet_to_go

\* the dates from today to the semester end on which the subject has classes
InstructionalDates ==
    {d \in today..SemesterEndDay : day_name(d) \in DOMAIN timetable /\ d \notin holidays}

\* the calendar forecast: classes of c over the instructional dates
RECURSIVE SumClasses(_, _)
SumClasses(dates, c) ==
    IF dates = {} THEN 0
    ELSE LET d == CHOOSE x \in dates : TRUE
         IN  Cardinality({e \in Entries(timetable) : e[1] = day_name(d) /\ e[3] = c})
             + SumClasses(dates \ {d}, c)

RemainingOf(c) == SumClasses(InstructionalDates, c)

\* the least k with k >= minimum_attendance * totalPossible / 100
MinRequiredPresent(c) ==
    CHOOSE k \in 0..TotalPossibleOf(c) :
        /\ 100 * k >= minimum_attendance * TotalPossibleOf(c)
        /\ 100 * (k - 1) < minimum_attendance * TotalPossibleOf(c)

Clamp(x, lo, hi) == IF x < lo THEN lo ELSE IF x > hi THEN hi ELSE x

\* C1: the classes_needed returned by get_attendance_stats is at least 0 and at
\* most the seeded yet-to-go count plus the remaining classes of the calendar.
C1_ClassesNeededInRange ==
    lastOp.op = "get_attendance_stats" =>
        LET c == lastOp.args[1]
        IN  /\ lastOp.ret.classes_needed >= 0
            /\ lastOp.ret.classes_needed <= SeedOf(c).yet_to_go + RemainingOf(c)

\* get_attendance_stats has returned a need cut down to the classes available
C1_Witness ==
    /\ lastOp.op = "get_attendance_stats"
    /\ LET c == lastOp.args[1]
       IN  /\ RemainingOf(c) > 0
           /\ lastOp.ret.classes_needed = SeedOf(c).yet_to_go + RemainingOf(c)
           /\ MinRequiredPresent(c) - PresentOf(c) > SeedOf(c).yet_to_go + RemainingOf(c)

\* C2: for a subject with no class held (no record, seed present = absent = 0)
\* the percentage is 0 and the bunkable count is 0, for every threshold and
\* every seeded yet-to-go count; with an all-zero seed classes_needed is 0 and
\* the status is NO_DATA.
C2_NothingHeld ==
    /\ lastOp.op = "refresh_analytics" =>
          \A c \in DOMAIN lastOp.ret :
              (RecordsOf(c) = << >> /\ SeedOf(c).present = 0 /\ SeedOf(c).absent = 0) =>
                  /\ lastOp.ret[c].stats.percentage = 0
                  /\ lastOp.ret[c].bunkable = 0
                  /\ SeedOf(c).yet_to_go = 0 =>
                        /\ lastOp.ret[c].stats.classes_needed = 0
                        /\ lastOp.ret[c].status = "NO_DATA"
    /\ lastOp.op = "calculate_bunkable_classes" =>
          (HeldOf(lastOp.args[1]) = 0 => lastOp.ret = 0)
    /\ lastOp.op = "get_attendance_stats" =>
          (HeldOf(lastOp.args[1]) = 0 => lastOp.ret.percentage = 0)

\* the analytics were computed for a subject with nothing held, classes still
\* to go and a threshold of 0, where the unguarded bunkable count is not 0
C2_Witness ==
    /\ lastOp.op = "refresh_analytics"
    /\ minimum_attendance = 0
    /\ \E c \in DOMAIN lastOp.ret :
          /\ HeldOf(c) = 0
          /\ SeedOf(c).yet_to_go > 0
          /\ lastOp.ret[c].bunkable = 0

\* the indices of the records of subject c dated d
RecordsAt(c, d) == {i \in 1..Len(RecordsOf(c)) : RecordsOf(c)[i].date = d}

\* C3: the ledger holds at most one record per (subject, date), its status is
\* the status of the latest mark_attendance for that subject and date, and a
\* mark_attendance leaves exactly one record for its subject and date.
C3_UpsertLatestWins ==
    /\ \A c \in DOMAIN attendance_records :
          \A i, j \in 1..Len(attendance_records[c]) :
              attendance_records[c][i].date = attendance_records[c][j].date => i = j
    /\ \A c \in DOMAIN attendance_records :
          \A i \in 1..Len(attendance_records[c]) :
              attendance_records[c][i].status =
                  lastMark[<<c, attendance_records[c][i].date>>]
    /\ lastOp.op = "mark_attendance" =>
          /\ Cardinality(RecordsAt(lastOp.args[1], lastOp.args[2])) = 1
          /\ \A i \in RecordsAt(lastOp.args[1], lastOp.args[2]) :
                RecordsOf(lastOp.args[1])[i].status = lastOp.args[3]

\* a date marked absent again after a later date was first marked: the record
\* was there before the call, which replaced its status
C3_Witness ==
    /\ lastOp.op = "mark_attendance"
    /\ lastOp.args[3] = "absent"
    /\ Len(RecordsOf(lastOp.args[1])) = 2
    /\ RecordsOf(lastOp.args[1])[1] = [date |-> lastOp.args[2], status |-> "absent"]

\* C4: mark_attendance is idempotent: calling it again with the arguments of
\* the call that just returned leaves the ledger (records and order) as it is.
C4_MarkIdempotent ==
    lastOp.op = "mark_attendance" =>
        MarkLedger(attendance_records, lastOp.args[1], lastOp.args[2], lastOp.args[3])
            = attendance_records

\* a call on a ledger where both subjects have records, two for the one marked
C4_Witness ==
    /\ lastOp.op = "mark_attendance"
    /\ Len(RecordsOf(lastOp.args[1])) = 2
    /\ \A c \in SubjectCodes : RecordsOf(c) # << >>

\* C5: each (weekday, period) slot of the timetable holds at most one entry.
C5_OneEntryPerSlot ==
    \A d \in DOMAIN timetable :
        \A i, j \in 1..Len(timetable[d]) :
            timetable[d][i][1] = timetable[d][j][1] => i = j

\* a class was added on a day whose three driven periods are all occupied, by
\* both subjects
C5_Witness ==
    /\ lastOp.op = "add_timetable_entry"
    /\ lastOp.ret = "ok"
    /\ Len(timetable[lastOp.args[1]]) = Cardinality(PeriodInputs)
    /\ \A c \in SubjectCodes : \E e \in Entries(timetable) : e[1] = lastOp.args[1] /\ e[3] = c

\* the periods of subject c on day d
PeriodsOf(d, c) == {e[2] : e \in {x \in Entries(timetable) : x[1] = d /\ x[3] = c}}

\* every occurrence of a lab subject is one half of a pair (N, N+1) of that
\* subject on its weekday: no unpaired slot, no run of three or more
LabsInPairs ==
    \A d \in DOMAIN timetable :
        \A c \in DOMAIN subjects :
            subjects[c].is_lab =>
                \A p \in PeriodsOf(d, c) :
                    (p - 1 \in PeriodsOf(d, c)) # (p + 1 \in PeriodsOf(d, c))

\* C6: every timetable occurrence of a lab subject is part of a pair of exactly
\* two adjacent periods (N, N+1) of that subject on the same weekday, in every
\* state reached by add_subject, add_timetable_entry, delete_timetable_entry
\* and delete_subject. Stated on the timetable operations, which are to
\* preserve it: an add_timetable_entry or delete_timetable_entry called where
\* the labs are in pairs returns where they are in pairs.
C6_TimetableOpsKeepLabPairs ==
    [][(lastOp'.op \in {"add_timetable_entry", "delete_timetable_entry"} /\ LabsInPairs)
          => LabsInPairs']_vars

\* C7: for a lab subject add_timetable_entry raises the conflict error exactly
\* when the period is the last one (7) or the following period of that weekday
\* is occupied; otherwise it succeeds. A subject that is no lab never conflicts.
C7_LabConflictRaised ==
    [][lastOp'.op = "add_timetable_entry" =>
          LET d == lastOp'.args[1]
              p == lastOp'.args[2]
              c == lastOp'.args[3]
          IN  (lastOp'.ret = "ValueError")
              <=> /\ c \in DOMAIN subjects
                  /\ subjects[c].is_lab
                  /\ \/ p = LastPeriod
                     \/ \E e \in Entries(timetable) : e[1] = d /\ e[2] = p + 1]_vars

\* a lab refused below the last period (the following period is occupied), the
\* other weekday holding a lab pair placed earlier
C7_Witness ==
    /\ lastOp.op = "add_timetable_entry"
    /\ lastOp.ret = "ValueError"
    /\ lastOp.args[2] < LastPeriod
    /\ \E d \in DOMAIN timetable, c \in DOMAIN subjects :
          /\ d # lastOp.args[1]
          /\ subjects[c].is_lab
          /\ PeriodsOf(d, c) = {LastPeriod - 1, LastPeriod}

\* C8: after delete_subject(S) of an existing subject S the ledger has no
\* records for S, no weekday has an entry pointing to S and S is not in the
\* subject map; the records and the timetable entries of every other subject
\* are as before.
C8_DeleteSubjectCascade ==
    [][(lastOp'.op = "delete_subject" /\ lastOp'.args[1] \in DOMAIN subjects) =>
          LET s == lastOp'.args[1]
          IN  /\ s \notin DOMAIN subjects'
              /\ s \notin DOMAIN attendance_records'
              /\ \A d \in DOMAIN timetable' :
                    \A i \in 1..Len(timetable'[d]) : timetable'[d][i][2] # s
              /\ \A c \in SubjectCodes \ {s} :
                    /\ (c \in DOMAIN subjects') = (c \in DOMAIN subjects)
                    /\ c \in DOMAIN subjects => subjects'[c] = subjects[c]
                    /\ (c \in DOMAIN attendance_records')
                          = (c \in DOMAIN attendance_records)
                    /\ c \in DOMAIN attendance_records =>
                          attendance_records'[c] = attendance_records[c]
              /\ DOMAIN timetable' = DOMAIN timetable
              /\ \A d \in DOMAIN timetable :
                    timetable'[d] = SelectSeq(timetable[d], LAMBDA e : e[2] # s)]_vars

\* a subject that had been marked was deleted, and the other subject still has
\* its record and its class
C8_Witness ==
    /\ lastOp.op = "delete_subject"
    /\ lastOp.ret = "ok"
    /\ \E d \in OneDate : lastMark[<<lastOp.args[1], d>>] # "none"
    /\ \E c \in DOMAIN subjects :
          /\ RecordsOf(c) # << >>
          /\ \E e \in Entries(timetable) : e[3] = c

AtThreshold(c) ==
    HeldOf(c) > 0 /\ 100 * PresentOf(c) = minimum_attendance * HeldOf(c)

\* C10 as stated: at the threshold classes_needed is 0 and the status is SAFE,
\* whatever the seeded yet-to-go count and the remaining count.
C10_AtThresholdSafe ==
    lastOp.op = "refresh_analytics" =>
        \A c \in DOMAIN lastOp.ret :
            AtThreshold(c) =>
                /\ lastOp.ret[c].stats.classes_needed = 0
                /\ lastOp.ret[c].status = "SAFE"

\* C10 as amended: at the threshold with a seeded yet-to-go count of 0,
\* classes_needed is 0 and the status is SAFE, whatever the remaining count.
C10_AtThresholdSafeWhenNoneToGo ==
    lastOp.op = "refresh_analytics" =>
        \A c \in DOMAIN lastOp.ret :
            (AtThreshold(c) /\ SeedOf(c).yet_to_go = 0) =>
                /\ lastOp.ret[c].stats.classes_needed = 0
                /\ lastOp.ret[c].status = "SAFE"

\* 75 present of 100 held at a threshold of 75, nothing seeded to go, classes
\* left on the calendar: reported SAFE
C10_Witness ==
    /\ lastOp.op = "refresh_analytics"
    /\ minimum_attendance = 75
    /\ \E c \in DOMAIN lastOp.ret :
          /\ PresentOf(c) = 75 /\ HeldOf(c) = 100
          /\ SeedOf(c).yet_to_go = 0
          /\ RemainingOf(c) > 0
          /\ lastOp.ret[c].status = "SAFE"

\* C11: with classes held, calculate_bunkable_classes returns
\* max(0, floor(totalPossible - (minPct / 100) * totalPossible - absent)) with
\* totalPossible = present + absent + yetToGo0; with none held it returns 0.
C11_BunkableFormula ==
    lastOp.op = "calculate_bunkable_classes" =>
        LET c == lastOp.args[1]
        IN  lastOp.ret =
                IF HeldOf(c) = 0 THEN 0
                ELSE Max(0, (100 * TotalPossibleOf(c)
                             - minimum_attendance * TotalPossibleOf(c)
                             - 100 * AbsentOf(c)) \div 100)

\* C12: for every threshold 0..100, every seed and ledger, get_attendance_stats,
\* calculate_bunkable_classes and the status selection of refresh_analytics
\* never divide by zero: none of them raises.
C12_NoZeroDivision ==
    lastOp.op \in {"get_attendance_stats", "calculate_bunkable_classes",
                   "refresh_analytics"} => ~lastOp.raised

\* the analytics of a subject with classes held that needs classes and has
\* none seeded to go (the branch that skips needed_percentage), at threshold 100
C12_Witness ==
    /\ lastOp.op = "refresh_analytics"
    /\ ~lastOp.raised
    /\ minimum_attendance = 100
    /\ \E c \in DOMAIN lastOp.ret :
          /\ HeldOf(c) > 0
          /\ SeedOf(c).yet_to_go = 0
          /\ lastOp.ret[c].stats.classes_needed > 0
          /\ lastOp.ret[c].status = "UNRECOVERABLE"

\* C13: present, absent, held, percentage, remaining, totalPossible,
\* classes_needed and bunkable of the projection are all non-negative.
C13_OutputsNonNegative ==
    (lastOp.op = "refresh_analytics" /\ ~lastOp.raised) =>
        \A c \in DOMAIN lastOp.ret :
            /\ lastOp.ret[c].stats.current_present >= 0
            /\ lastOp.ret[c].stats.current_absent >= 0
            /\ lastOp.ret[c].stats.current_total >= 0
            /\ lastOp.ret[c].stats.percentage >= 0
            /\ lastOp.ret[c].stats.remaining_classes >= 0
            /\ lastOp.ret[c].stats.total_possible >= 0
            /\ lastOp.ret[c].stats.classes_needed >= 0
            /\ lastOp.ret[c].bunkable >= 0

\* a subject with more classes attended than the threshold requires of all
\* possible ones: the difference classes_needed clamps is negative
C13_Witness ==
    /\ lastOp.op = "refresh_analytics"
    /\ ~lastOp.raised
    /\ minimum_attendance > 0
    /\ \E c \in DOMAIN lastOp.ret :
          /\ MinRequiredPresent(c) < PresentOf(c)
          /\ lastOp.ret[c].stats.classes_needed = 0
          /\ lastOp.ret[c].bunkable > 0

\* the operations of the tracker that change its state
MutatingOps ==
    {"add_subject", "delete_subject", "add_timetable_entry", "delete_timetable_entry",
     "mark_attendance", "add_holiday", "remove_holiday", "set_initial_attendance",
     "update_min_attendance"}

\* C14: after every operation of the tracker has returned, whether it succeeded
\* or raised, the persisted snapshot equals the state in memory.
C14_SnapshotMatchesMemory ==
    lastOp.op \in MutatingOps =>
        persisted = Snapshot(subjects, timetable, holidays, attendance_records,
                             minimum_attendance, initial_attendance)

\* the periods add_timetable_entry(d, p, c) writes: p, and p + 1 for a lab
TargetPeriods(p, c) == IF IsLab(subjects, c) THEN {p, p + 1} ELSE {p}

\* C15: a successful add_timetable_entry(day, N, S) replaces whatever occupied
\* period N (and N + 1 when S is a lab) of that weekday by S, leaves every other
\* period of that weekday and every other weekday unchanged, and leaves the
\* weekday's list sorted by ascending period.
C15_AddReplacesSlot ==
    [][(lastOp'.op = "add_timetable_entry" /\ ~lastOp'.raised) =>
          LET d == lastOp'.args[1]
              p == lastOp'.args[2]
              c == lastOp'.args[3]
          IN  /\ Entries(timetable') =
                    {e \in Entries(timetable) :
                        ~(e[1] = d /\ e[2] \in TargetPeriods(p, c))}
                    \cup {<<d, q, c>> : q \in TargetPeriods(p, c)}
              /\ DOMAIN timetable' = DOMAIN timetable \cup {d}
              /\ \A dd \in DOMAIN timetable \ {d} : timetable'[dd] = timetable[dd]
              /\ \A i \in 1..(Len(timetable'[d]) - 1) :
                    timetable'[d][i][1] < timetable'[d][i + 1][1]]_vars

\* a lab placed in the two periods before the last one, whose occupant is
\* another subject, while the other weekday holds classes
C15_Witness ==
    /\ lastOp.op = "add_timetable_entry"
    /\ ~lastOp.raised
    /\ lastOp.args[2] = LastPeriod - 2
    /\ IsLab(subjects, lastOp.args[3])
    /\ Len(timetable[lastOp.args[1]]) = 3
    /\ timetable[lastOp.args[1]][3][2] # lastOp.args[3]
    /\ \E dd \in DOMAIN timetable : dd # lastOp.args[1] /\ timetable[dd] # << >>

\* the entries delete_timetable_entry(d, p, c) is to remove: the entry (p, c)
\* if the weekday has it, and the following period when c is a lab holding it
PairedEntries(d, p, c) ==
    IF <<d, p, c>> \notin Entries(timetable) THEN {}
    ELSE IF IsLab(subjects, c) /\ <<d, p + 1, c>> \in Entries(timetable)
         THEN {<<d, p, c>>, <<d, p + 1, c>>}
         ELSE {<<d, p, c>>}

\* C16: delete_timetable_entry(day, slot, S) removes the entry (slot, S) and,
\* only if it was the first half of a lab pair, the paired following slot; every
\* other entry of that weekday (later entries of a non-lab S included) and every
\* other weekday stay as they were.  Stated for the subjects of the subject map.
C16_DeleteRemovesOnlyEntry ==
    [][(lastOp'.op = "delete_timetable_entry" /\ lastOp'.args[3] \in DOMAIN subjects) =>
          Entries(timetable') =
              Entries(timetable)
                  \ PairedEntries(lastOp'.args[1], lastOp'.args[2], lastOp'.args[3])]_vars

\* C17: get_remaining_classes(S) is the sum, over the dates d from today to the
\* semester end whose weekday is a timetable key and which are no holiday, of
\* the number of that weekday's entries pointing to S; a lab placed once counts
\* 2 on each such date; the result is 0 when today is after the semester end.
C17_RemainingIsCalendarSum ==
    (lastOp.op = "get_attendance_stats" /\ ~lastOp.raised) =>
        LET c == lastOp.args[1]
        IN  /\ lastOp.ret.remaining_classes = RemainingOf(c)
            /\ today > SemesterEndDay => lastOp.ret.remaining_classes = 0
            /\ (IsLab(subjects, c)
                  /\ \A d \in DOMAIN timetable : Cardinality(PeriodsOf(d, c)) = 2)
               => lastOp.ret.remaining_classes = 2 * Cardinality(InstructionalDates)

\* a lab with a pair on Monday and on Saturday, counted over dates of which one
\* with classes is a holiday and one is not
C17_Witness ==
    /\ lastOp.op = "get_attendance_stats"
    /\ ~lastOp.raised
    /\ IsLab(subjects, lastOp.args[1])
    /\ DOMAIN timetable = {"Monday", "Saturday"}
    /\ \A d \in DOMAIN timetable : Cardinality(PeriodsOf(d, lastOp.args[1])) = 2
    /\ \E d \in today..SemesterEndDay : day_name(d) \in DOMAIN timetable /\ d \in holidays
    /\ InstructionalDates # {}
    /\ lastOp.ret.remaining_classes = 2 * Cardinality(InstructionalDates)

\* the Saturdays and Sundays from date t to the semester end
SaturdaysAndSundays(t) ==
    {d \in t..SemesterEndDay : day_name(d) \in {"Saturday", "Sunday"}}

\* C18: after the initialisation of the tracker every Saturday and Sunday from
\* today to the semester end is a holiday, every holiday loaded from the
\* snapshot is still one, and the seeding has added no weekday date.
C18_WeekendsSeeded ==
    /\ [](lastOp.op = "__init__" => SaturdaysAndSundays(today) \subseteq holidays)
    /\ [][lastOp'.op = "__init__" =>
             /\ persisted.holidays \subseteq holidays'
             /\ holidays' \ persisted.holidays \subseteq SaturdaysAndSundays(today')]_vars

\* the tracker started again on the Monday before the semester end from a
\* snapshot whose holidays were that Monday and no weekend before it
C18_Witness ==
    /\ lastOp.op = "__init__"
    /\ lastOp.args = <<SemesterEndDay - 5>>
    /\ holidays = {SemesterEndDay - 5, SemesterEndDay}

\* C19: delete_subject of an unknown code, delete_timetable_entry of an entry
\* the timetable does not hold and mark_attendance for a code that is not in
\* the subject map report a NotFoundError instead of completing silently.
C19_UnknownReferenceReported ==
    [][(\/ /\ lastOp'.op \in {"delete_subject", "mark_attendance"}
           /\ lastOp'.args[1] \notin DOMAIN subjects
        \/ /\ lastOp'.op = "delete_timetable_entry"
           /\ lastOp'.args \notin Entries(timetable))
          => (lastOp'.raised /\ lastOp'.ret = "NotFoundError")]_vars

\* C20: a threshold outside 0..100 is rejected and minimum_attendance keeps its
\* value; an accepted change modifies minimum_attendance only (subjects,
\* timetable, holidays, ledger records and seeds stay); the threshold is always
\* within 0..100.
C20_ThresholdChange ==
    /\ [](minimum_attendance \in 0..100)
    /\ [][lastOp'.op = "update_min_attendance" =>
             LET text == lastOp'.args[1]
             IN  /\ (~text.numeric \/ text.value < 0 \/ text.value > 100)
                       => /\ lastOp'.ret # "ok"
                          /\ minimum_attendance' = minimum_attendance
                 /\ lastOp'.ret = "ok" => minimum_attendance' = text.value
                 /\ subjects' = subjects
                 /\ timetable' = timetable
                 /\ holidays' = holidays
                 /\ initial_attendance' = initial_attendance
                 /\ \A c \in DOMAIN attendance_records \cup DOMAIN attendance_records' :
                       /\ c \in DOMAIN attendance_records =>
                             /\ c \in DOMAIN attendance_records'
                             /\ attendance_records'[c] = attendance_records[c]
                       /\ c \notin DOMAIN attendance_records =>
                             attendance_records'[c] = << >>]_vars

\* a number above 100 refused after the threshold had been set to 100, with a
\* subject, a timetable and holidays in the state
C20_Witness ==
    /\ lastOp.op = "update_min_attendance"
    /\ lastOp.ret = "out of range"
    /\ lastOp.args[1].value > 100
    /\ minimum_attendance = 100
    /\ subjects # << >>
    /\ timetable # << >>
    /\ holidays # {}

\* C21: no error raised inside a core operation is swallowed: when loading the
\* snapshot fails, the failure reaches the caller of the constructor and the
\* tracker does not go on with a partially loaded state.
C21_LoadFailureRaised ==
    (lastOp.op = "__init__" /\ Len(lastOp.args) = 2) => lastOp.raised

\* the tiers of the ratio 100 * classes_needed / yetToGo0, least severe first,
\* each with the least ratio that reaches it
Tiers ==
    <<[name |-> "SAFE_NEED", from |-> 0], [name |-> "MEDIUM", from |-> 60],
      [name |-> "ATTENTION", from |-> 70], [name |-> "CRITICAL", from |-> 80],
      [name |-> "CANT_BUNK", from |-> 90], [name |-> "UNRECOVERABLE", from |-> 100]>>

\* the position of the highest tier the ratio 100 * needed / to_go reaches
TierOf(needed, to_go) ==
    CHOOSE i \in 1..Len(Tiers) :
        /\ 100 * needed >= Tiers[i].from * to_go
        /\ \A j \in (i + 1)..Len(Tiers) : 100 * needed < Tiers[j].from * to_go

\* the position of a tier by its name
Severity(name) == CHOOSE i \in 1..Len(Tiers) : Tiers[i].name = name

\* the counts the tiers are compared over
MaxAlt == 8

\* C22: the recommendation bucket is a total function of held, classes_needed
\* and yetToGo0: NO_DATA iff nothing is held; otherwise SAFE iff classes_needed
\* is 0; otherwise UNRECOVERABLE when yetToGo0 is 0; otherwise the tier of the
\* ratio 100 * classes_needed / yetToGo0 (100, 90, 80, 70, 60); a larger ratio
\* never gives a less severe tier.
C22_BucketTotal ==
    (lastOp.op = "refresh_analytics" /\ ~lastOp.raised) =>
        \A c \in DOMAIN lastOp.ret :
            LET stats  == lastOp.ret[c].stats
                needed == stats.classes_needed
                to_go  == SeedOf(c).yet_to_go
                bucket == lastOp.ret[c].status
            IN  /\ bucket \in {"NO_DATA", "SAFE"} \cup {Tiers[i].name : i \in 1..Len(Tiers)}
                /\ (bucket = "NO_DATA") <=> (HeldOf(c) = 0)
                /\ HeldOf(c) > 0 => ((bucket = "SAFE") <=> (needed = 0))
                /\ (HeldOf(c) > 0 /\ needed > 0 /\ to_go = 0) => bucket = "UNRECOVERABLE"
                /\ (HeldOf(c) > 0 /\ needed > 0 /\ to_go > 0) =>
                      /\ bucket = Tiers[TierOf(needed, to_go)].name
                      /\ \A k \in 1..MaxAlt, z \in 1..MaxAlt :
                            k * to_go >= needed * z =>
                               Severity(StatusOf([stats EXCEPT !.classes_needed = k,
                                                               !.yet_to_go = z]))
                                  >= Severity(bucket)

\* a subject that must attend 9 of its 10 seeded classes to go: the tier
\* between 90 and 100
C22_Witness ==
    /\ lastOp.op = "refresh_analytics"
    /\ ~lastOp.raised
    /\ \E c \in DOMAIN lastOp.ret :
          /\ HeldOf(c) > 0
          /\ 100 * lastOp.ret[c].stats.classes_needed >= 90 * SeedOf(c).yet_to_go
          /\ lastOp.ret[c].stats.classes_needed < SeedOf(c).yet_to_go
          /\ lastOp.ret[c].status = "CANT_BUNK"

\* C23: for every tracker state, the snapshot written by save_data and loaded
\* by load_data into a fresh tracker restores every persisted field (subjects,
\* timetable, holidays, ledger, threshold, semester end date, seeds); stated
\* for Atten.py.
C23_SnapshotRoundTrip ==
    Atten_LoadData(WriteJson(persisted), LoadedFields) = persisted

\* the same round trip for new.py
RoundTrip == LoadData(WriteJson(persisted), LoadedFields) = persisted

\* C24: in Atten.py and attendence.py, for every threshold 0..100 that
\* update_min_attendance accepts and every ledger, calculate_bunkable_classes
\* and the critical-subject computation of refresh_analytics complete without
\* a division by zero.
C24_VariantsNoZeroDivision ==
    lastOp.op \in {"Atten.calculate_bunkable_classes", "Atten.refresh_analytics",
                   "Atten.update_min_attendance",
                   "attendence.calculate_bunkable_classes"} => ~lastOp.raised

\* C25: holiday removal is durable: a date the user has removed with
\* remove_holiday is in the holiday set of no later state unless add_holiday
\* is called for it again, a restart of the program included.  Stated for the
\* step that follows the removal.
C25_RemovalDurable ==
    [][lastOp.op = "remove_holiday" =>
          \/ lastOp.args[1] \notin holidays'
          \/ /\ lastOp'.op = "add_holiday"
             /\ lastOp'.args = lastOp.args]_vars

\* C26: a failed add_timetable_entry (lab placement conflict) leaves the
\* timetable in memory exactly as it was: no entry added or removed, and the
\* set of weekdays that are timetable keys unchanged.
C26_FailedAddLeavesTimetable ==
    [][(lastOp'.op = "add_timetable_entry" /\ lastOp'.raised) =>
          /\ Entries(timetable') = Entries(timetable)
          /\ DOMAIN timetable' = DOMAIN timetable
          /\ timetable' = timetable]_vars

\* C27: in every reachable state, every subject code that appears in the
\* ledger, in the seeds or in a timetable entry is a key of the subject map.
C27_ReferentialIntegrity ==
    /\ DOMAIN attendance_records \subseteq DOMAIN subjects
    /\ DOMAIN initial_attendance \subseteq DOMAIN subjects
    /\ \A e \in Entries(timetable) : e[3] \in DOMAIN subjects

\* C28: get_attendance_stats and calculate_bunkable_classes leave the state of
\* the tracker unchanged; in particular the ledger has the same subject keys
\* before and after the call, also for a subject without records.
C28_StatsReadOnly ==
    [][lastOp'.op \in {"get_attendance_stats", "calculate_bunkable_classes"} =>
          /\ DOMAIN attendance_records' = DOMAIN attendance_records
          /\ UNCHANGED <<subjects, timetable, holidays, attendance_records,
                         minimum_attendance, initial_attendance>>]_vars

\* C29: for every non-negative seed, ledger and threshold in 0..100,
\* calculate_bunkable_classes returns at most yetToGo0 + remaining, the classes
\* that can still occur.
C29_BunkableAtMostFuture ==
    (lastOp.op = "calculate_bunkable_classes" /\ ~lastOp.raised) =>
        lastOp.ret <= SeedOf(lastOp.args[1]).yet_to_go + RemainingOf(lastOp.args[1])

\* C29 as the code has it: calculate_bunkable_classes returns at most
\* present + yetToGo0, the possible classes that have not been missed.
C29_BunkableAtMostNotMissed ==
    (lastOp.op = "calculate_bunkable_classes" /\ ~lastOp.raised) =>
        lastOp.ret <= PresentOf(lastOp.args[1]) + SeedOf(lastOp.args[1]).yet_to_go

\* a count above the classes that can still occur, for a subject with classes
\* missed and a threshold above 0
C29_Witness ==
    /\ lastOp.op = "calculate_bunkable_classes"
    /\ ~lastOp.raised
    /\ minimum_attendance > 0
    /\ AbsentOf(lastOp.args[1]) > 0
    /\ lastOp.ret > SeedOf(lastOp.args[1]).yet_to_go + RemainingOf(lastOp.args[1])

\* C30: with totalPossible > 0 and 0 < classes_needed < yetToGo0 + remaining,
\* classes_needed is the least count that reaches the threshold:
\* 100 * (present + classes_needed) >= minPct * totalPossible and
\* 100 * (present + classes_needed - 1) < minPct * totalPossible; and with
\* classes held and 0 < classes_needed <= yetToGo0,
\* classes_needed + bunkable = yetToGo0.
C30_ClassesNeededExact ==
    (lastOp.op = "refresh_analytics" /\ ~lastOp.raised) =>
        \A c \in DOMAIN lastOp.ret :
            LET needed == lastOp.ret[c].stats.classes_needed
                to_go  == SeedOf(c).yet_to_go
            IN  /\ (TotalPossibleOf(c) > 0 /\ 0 < needed
                       /\ needed < to_go + RemainingOf(c)) =>
                      /\ 100 * (PresentOf(c) + needed)
                            >= minimum_attendance * TotalPossibleOf(c)
                      /\ 100 * (PresentOf(c) + needed - 1)
                            < minimum_attendance * TotalPossibleOf(c)
                /\ (HeldOf(c) > 0 /\ 0 < needed /\ needed <= to_go) =>
                      needed + lastOp.ret[c].bunkable = to_go

====
